---- MODULE Spec2Model ----
(***************************************************************************)
(* A model of uv's InstallTarget (crates/uv-resolver/src/lock/target.rs):  *)
(* the three-variant install target, its four queries, the merge of the    *)
(* root manifest's two dependency-group sources, and the dependency-group  *)
(* flattener that groups() drives.                                         *)
(*                                                                         *)
(* Rust values are represented as follows.                                 *)
(*   Option<T>          a sequence of length 0 (None) or 1 (Some(x)), so   *)
(*                      that Option::into_iter is the sequence itself      *)
(*   Vec<T>, iterators  sequences                                          *)
(*   BTreeMap<K, V>     a function whose domain is the key set; keys are   *)
(*                      visited in the order of GroupOrder                 *)
(*   Result<T, E>       [ok |-> TRUE, value |-> v] or                      *)
(*                      [ok |-> FALSE, error |-> e]                        *)
(***************************************************************************)
EXTENDS Integers, Sequences, FiniteSets, TLC

VARIABLES target, call, ret

vars == <<target, call, ret>>

(***************************************************************************)
(* Bounds of the checked instances.                                        *)
(***************************************************************************)
\* Longest member list of a lock.
MaxMembers == 2
\* Most entries, over all its groups, of a manifest's dependency-groups
\* table when the four queries are checked.
MaxManifestEntries == 2
\* Most entries, over all its groups, of a table given to the flattener
\* alone.
MaxGroupEntries == 4
\* Longest legacy dev-dependencies list.
MaxDevDependencies == 1

PackageNames == {"p1", "p2", "p3"}
Requirements == {"R1", "R2"}

\* Ord for GroupName: the order in which a BTreeMap visits its keys.
GroupOrder == <<"a", "b", "dev">>
GroupNames == {GroupOrder[i] : i \in 1..Len(GroupOrder)}

\* uv_normalize::DEV_DEPENDENCIES, the reserved group of the legacy list.
DEV_DEPENDENCIES == "dev"

(***************************************************************************)
(* Option and Result.                                                      *)
(***************************************************************************)
None == <<>>
Some(x) == <<x>>

Ok(v) == [ok |-> TRUE, value |-> v]
Err(e) == [ok |-> FALSE, error |-> e]

Range(s) == {s[i] : i \in 1..Len(s)}

\* Sequences over S of length at most n.
SeqUpTo(S, n) == UNION {[1..k -> S] : k \in 0..n}
NoDuplicates(s) == \A i, j \in 1..Len(s) : s[i] = s[j] => i = j

(***************************************************************************)
(* Dependency-group tables: group name -> list of entries, an entry being  *)
(* a literal requirement or an include of another group.                   *)
(***************************************************************************)
Requirement(r) == [kind |-> "requirement", value |-> r]
IncludeGroup(g) == [kind |-> "include-group", value |-> g]
Entries == {Requirement(r) : r \in Requirements}
             \cup {IncludeGroup(g) : g \in GroupNames}

EmptyTable == [g \in {} |-> <<>>]
Insert(map, key, value) ==
    [k \in DOMAIN map \cup {key} |-> IF k = key THEN value ELSE map[k]]

\* The table that declares the groups of D, the group at position i of
\* GroupOrder holding the entries lists[i].
Position(g) == CHOOSE i \in 1..Len(GroupOrder) : GroupOrder[i] = g
TableOf(D, lists) == [g \in D |-> lists[Position(g)]]
\* The entry counts, by position in GroupOrder, of the tables that declare
\* the groups of D and hold at most n entries in all.
RECURSIVE Sum(_)
Sum(s) == IF s = <<>> THEN 0 ELSE Head(s) + Sum(Tail(s))
EntryCounts(D, n) ==
    {c \in [1..Len(GroupOrder) -> 0..n] :
        /\ Sum(c) <= n
        /\ \A i \in 1..Len(GroupOrder) : GroupOrder[i] \notin D => c[i] = 0}

\* The lists of entries, one list per position of GroupOrder, with the
\* entry counts c.
RECURSIVE EntryLists(_)
EntryLists(c) ==
    IF c = <<>> THEN {<<>>}
    ELSE {<<h>> \o t : h \in [1..Head(c) -> Entries], t \in EntryLists(Tail(c))}

(***************************************************************************)
(* The descriptors a target borrows.  Lock and Workspace are defined       *)
(* outside target.rs; target.rs reads the lock's member list and root      *)
(* identifier, and the root manifest's two group declarations.             *)
(***************************************************************************)
\* Lock: members() is a list without repetition, root() an Option.
Lock(members, root) == [members |-> members, root |-> root]
Locks ==
    {Lock(m, r) : m \in {s \in SeqUpTo(PackageNames, MaxMembers) : NoDuplicates(s)},
                  r \in {None} \cup {Some(p) : p \in PackageNames}}

\* PyProjectToml: tool: Option<Tool>, Tool.uv: Option<ToolUv>,
\* ToolUv.dev_dependencies: Option<Vec<Requirement>>,
\* dependency_groups: Option<BTreeMap<GroupName, Vec<DependencyGroupSpecifier>>>.
PyProjectToml(tool, dependency_groups) ==
    [tool |-> tool, dependency_groups |-> dependency_groups]
Tools ==
    {None, Some([uv |-> None]), Some([uv |-> Some([dev_dependencies |-> None])])}
      \cup {Some([uv |-> Some([dev_dependencies |-> Some(d)])]) :
                d \in SeqUpTo(Requirements, MaxDevDependencies)}

\* Workspace: the root manifest and the member table (its keys).
Workspace(pyproject_toml, packages) ==
    [pyproject_toml |-> pyproject_toml, packages |-> packages]

\* The lock of the targets whose manifest is varied.
SampleLock == Lock(<<"p1", "p2">>, None)

(***************************************************************************)
(* enum InstallTarget                                                      *)
(***************************************************************************)
Project(workspace, name, lock) ==
    [kind |-> "Project", workspace |-> workspace, name |-> name, lock |-> lock]
WorkspaceTarget(workspace, lock) ==
    [kind |-> "Workspace", workspace |-> workspace, lock |-> lock]
NonProjectWorkspace(workspace, lock) ==
    [kind |-> "NonProjectWorkspace", workspace |-> workspace, lock |-> lock]

InstallTargets(workspaces, locks) ==
    {Project(w, n, l) : w \in workspaces, n \in PackageNames, l \in locks}
      \cup {WorkspaceTarget(w, l) : w \in workspaces, l \in locks}
      \cup {NonProjectWorkspace(w, l) : w \in workspaces, l \in locks}

(***************************************************************************)
(* InstallTarget::workspace, packages, project_name                        *)
(***************************************************************************)
workspace(self) == self.workspace

\* The keys of a member table, in key order.
PackageOrder == <<"p1", "p2", "p3">>
Keys(table) == SelectSeq(PackageOrder, LAMBDA p : p \in table)

\* packages() with the members and the root chained.
packages_chained(self) ==
    CASE self.kind = "Project" -> <<self.name>>
      [] self.kind = "NonProjectWorkspace" -> self.lock.members
      [] self.kind = "Workspace" -> self.lock.members \o self.lock.root
\* packages() without the fallback to the root.
packages_no_fallback(self) ==
    CASE self.kind = "Project" -> <<self.name>>
      [] self.kind = "NonProjectWorkspace" -> self.lock.members
      [] self.kind = "Workspace" -> self.lock.members
\* packages() reading the workspace's member table for a whole workspace,
\* as the positional InstallTarget of crates/uv/src/commands/project/target.rs
\* (lines 39-40) is written; that file matches on variants its enum does not
\* declare and is not the target described here.
packages_of_workspace(self) ==
    CASE self.kind = "Project" -> <<self.name>>
      [] self.kind = "NonProjectWorkspace" -> Keys(self.workspace.packages)
      [] self.kind = "Workspace" -> Keys(self.workspace.packages)

packages(self) ==
    CASE self.kind = "Project" -> <<self.name>>
      [] self.kind = "NonProjectWorkspace" -> self.lock.members
      [] self.kind = "Workspace" ->
            IF self.lock.members = <<>>
            THEN self.lock.root
            ELSE self.lock.members

\* project_name() naming the root package of a whole workspace.
project_name_of_root(self) ==
    CASE self.kind = "Project" -> Some(self.name)
      [] self.kind = "Workspace" -> self.lock.root
      [] self.kind = "NonProjectWorkspace" -> None

project_name(self) ==
    CASE self.kind = "Project" -> Some(self.name)
      [] self.kind = "Workspace" -> None
      [] self.kind = "NonProjectWorkspace" -> None

(***************************************************************************)
(* FlatDependencyGroups::from_dependency_groups, the group graph           *)
(* flattener: a depth-first expansion of every declared group, in key      *)
(* order, with a stack of the groups in progress and a memo of the groups  *)
(* already flattened.  The walk carries                                    *)
(*   resolved   the memo, group name -> flattened list                     *)
(*   error      None, or Some(the error that stopped the walk)             *)
(***************************************************************************)
CyclicGroupReference(cycle) ==
    [kind |-> "CyclicGroupReference", cycle |-> cycle]
UnknownGroupReference(missing, parent) ==
    [kind |-> "UnknownGroupReference", missing |-> missing, parent |-> parent]

\* The part of the stack from its entry for group g to its top.
RECURSIVE StackFrom(_, _)
StackFrom(parents, g) ==
    IF Head(parents) = g THEN parents ELSE StackFrom(Tail(parents), g)

\* Whether a group already flattened is taken from the memo.
Memoized(st, name) == name \in DOMAIN st.resolved

\* The error for an include of a group on the stack: it names the groups
\* from that group to the top of the stack.
CycleError_whole_stack(parents, name) == CyclicGroupReference(parents)
CycleError(parents, name) == CyclicGroupReference(StackFrom(parents, name))

\* What an include of group g contributes to the list `out` of the group
\* that holds it: the whole flattened list of g.
Included_deduplicated(out, st, g) ==
    SelectSeq(st.resolved[g], LAMBDA r : r \notin Range(out))
Included(out, st, g) == st.resolved[g]

RECURSIVE Resolve(_, _, _, _)
RECURSIVE Walk(_, _, _, _, _, _)

\* Expands group `name`, declared in `groups`, under the stack `parents`.
Resolve(groups, name, parents, st) ==
    IF st.error # None THEN st
    ELSE IF name \in Range(parents)
    THEN [st EXCEPT !.error = Some(CycleError(parents, name))]
    ELSE IF Memoized(st, name) THEN st
    ELSE LET w == Walk(groups, name, 1, Append(parents, name), <<>>, st)
         IN  IF w.st.error # None
             THEN w.st
             ELSE [w.st EXCEPT !.resolved = Insert(w.st.resolved, name, w.out)]

\* Walks the entries of group `name` from the i-th on; `out` is the list
\* built from the entries before it.
Walk(groups, name, i, parents, out, st) ==
    IF i > Len(groups[name]) THEN [st |-> st, out |-> out]
    ELSE LET entry == groups[name][i]
         IN  IF entry.kind = "requirement"
             THEN Walk(groups, name, i + 1, parents, Append(out, entry.value), st)
             ELSE IF entry.value \notin DOMAIN groups
             THEN [st |-> [st EXCEPT !.error =
                              Some(UnknownGroupReference(entry.value, name))],
                   out |-> out]
             ELSE LET sub == Resolve(groups, entry.value, parents, st)
                  IN  IF sub.error # None
                      THEN [st |-> sub, out |-> out]
                      ELSE Walk(groups, name, i + 1, parents,
                                out \o Included(out, sub, entry.value), sub)

\* The top-level expansions of the declared groups from position i of
\* GroupOrder on, each with an empty stack.
RECURSIVE ResolveAll(_, _, _)
ResolveAll(groups, i, st) ==
    IF i > Len(GroupOrder) THEN st
    ELSE IF GroupOrder[i] \in DOMAIN groups
    THEN ResolveAll(groups, i + 1, Resolve(groups, GroupOrder[i], <<>>, st))
    ELSE ResolveAll(groups, i + 1, st)

from_dependency_groups(groups) ==
    LET st == ResolveAll(groups, 1, [resolved |-> EmptyTable, error |-> None])
    IN  IF st.error # None THEN Err(st.error[1]) ELSE Ok(st.resolved)

(***************************************************************************)
(* InstallTarget::groups                                                   *)
(***************************************************************************)
\* workspace.pyproject_toml().tool.as_ref()
\*     .and_then(|tool| tool.uv.as_ref())
\*     .and_then(|uv| uv.dev_dependencies.as_ref())
dev_dependencies(ws) ==
    LET tool == ws.pyproject_toml.tool
        uv == IF tool = None THEN None ELSE tool[1].uv
    IN  IF uv = None THEN None ELSE uv[1].dev_dependencies

\* workspace.pyproject_toml().dependency_groups.iter().flatten().collect()
dependency_groups(ws) ==
    IF ws.pyproject_toml.dependency_groups = None
    THEN EmptyTable
    ELSE ws.pyproject_toml.dependency_groups[1]

\* One turn of the merge loop: map.entry(name), Vacant or Occupied.
MergeEntry_overwrite(map, name, dependencies) == Insert(map, name, dependencies)
MergeEntry(map, name, dependencies) ==
    IF name \notin DOMAIN map
    THEN Insert(map, name, dependencies)
    ELSE [map EXCEPT ![name] = map[name] \o dependencies]

\* The merge loop over the flattened groups from position i of GroupOrder on.
RECURSIVE MergeFlat(_, _, _)
MergeFlat(map, flat, i) ==
    IF i > Len(GroupOrder) THEN map
    ELSE IF GroupOrder[i] \in DOMAIN flat
    THEN MergeFlat(MergeEntry(map, GroupOrder[i], flat[GroupOrder[i]]), flat, i + 1)
    ELSE MergeFlat(map, flat, i + 1)

\* The merge loop over the chained iterator: the flattened groups, then the
\* dev group if dev-dependencies is defined.
Merge_skip_empty(flat, dev) ==
    LET map == MergeFlat(EmptyTable, flat, 1)
    IN  IF dev = None \/ dev = Some(<<>>) THEN map
        ELSE MergeEntry(map, DEV_DEPENDENCIES, dev[1])
Merge(flat, dev) ==
    LET map == MergeFlat(EmptyTable, flat, 1)
    IN  IF dev = None THEN map ELSE MergeEntry(map, DEV_DEPENDENCIES, dev[1])

\* groups() merging for every variant.
groups_of_any_target(self) ==
    LET flat == from_dependency_groups(dependency_groups(self.workspace))
    IN  IF ~flat.ok
        THEN flat
        ELSE Ok(Merge(flat.value, dev_dependencies(self.workspace)))
\* groups() falling back to the legacy list when flattening fails.
groups_swallowing_errors(self) ==
    CASE self.kind = "Project" -> Ok(EmptyTable)
      [] self.kind = "Workspace" -> Ok(EmptyTable)
      [] self.kind = "NonProjectWorkspace" ->
            LET flat == from_dependency_groups(dependency_groups(self.workspace))
            IN  IF ~flat.ok /\ dev_dependencies(self.workspace) = None
                THEN flat
                ELSE Ok(Merge(IF flat.ok THEN flat.value ELSE EmptyTable,
                              dev_dependencies(self.workspace)))

groups(self) ==
    CASE self.kind = "Project" -> Ok(EmptyTable)
      [] self.kind = "Workspace" -> Ok(EmptyTable)
      [] self.kind = "NonProjectWorkspace" ->
            LET flat == from_dependency_groups(dependency_groups(self.workspace))
            IN  IF ~flat.ok
                THEN flat
                ELSE Ok(Merge(flat.value, dev_dependencies(self.workspace)))

(***************************************************************************)
(* The state: one target, constructed once and never changed, the query    *)
(* called last and what it returned.                                       *)
(***************************************************************************)
Target(kind, ws, lock) ==
    CASE kind = "Project" -> Project(ws, "p1", lock)
      [] kind = "Workspace" -> WorkspaceTarget(ws, lock)
      [] kind = "NonProjectWorkspace" -> NonProjectWorkspace(ws, lock)
Kinds == {"Project", "Workspace", "NonProjectWorkspace"}

\* Targets over every lock and every member table; the root manifest
\* declares no groups.
Init ==
    /\ target \in InstallTargets(
           {Workspace(PyProjectToml(None, None), pk) : pk \in SUBSET PackageNames},
           Locks)
    /\ call = "none"
    /\ ret = None

\* Targets over every root manifest: dependency-groups absent or a table
\* of at most MaxManifestEntries entries, every shape of tool.uv.dev-dependencies.
InitGroups ==
    /\ \E kind \in Kinds, tool \in Tools :
          \/ target = Target(kind, Workspace(PyProjectToml(tool, None), {"p1", "p2"}),
                             SampleLock)
          \/ \E D \in SUBSET GroupNames :
               \E c \in EntryCounts(D, MaxManifestEntries) :
                 \E lists \in EntryLists(c) :
                    target = Target(kind,
                                    Workspace(PyProjectToml(tool, Some(TableOf(D, lists))),
                                              {"p1", "p2"}),
                                    SampleLock)
    /\ call = "none"
    /\ ret = None

\* Non-project targets over every dependency-groups table of at most
\* MaxGroupEntries entries.
InitFlatten ==
    /\ \E D \in SUBSET GroupNames :
         \E c \in EntryCounts(D, MaxGroupEntries) :
           \E lists \in EntryLists(c) :
              target = NonProjectWorkspace(
                           Workspace(PyProjectToml(None, Some(TableOf(D, lists))), {}),
                           SampleLock)
    /\ call = "none"
    /\ ret = None

CallWorkspace ==
    /\ call' = "workspace"
    /\ ret' = workspace(target)
    /\ UNCHANGED target

CallPackages ==
    /\ call' = "packages"
    /\ ret' = packages(target)
    /\ UNCHANGED target

CallGroups ==
    /\ call' = "groups"
    /\ ret' = groups(target)
    /\ UNCHANGED target

CallProjectName ==
    /\ call' = "project_name"
    /\ ret' = project_name(target)
    /\ UNCHANGED target

\* The flattener called on the collected dependency-groups table, as
\* groups() calls it for a non-project workspace.
CallFromDependencyGroups ==
    /\ target.kind = "NonProjectWorkspace"
    /\ call' = "from_dependency_groups"
    /\ ret' = from_dependency_groups(dependency_groups(target.workspace))
    /\ UNCHANGED target

Next == CallWorkspace \/ CallPackages \/ CallGroups \/ CallProjectName
NextFlatten == CallFromDependencyGroups \/ CallGroups

Spec == Init /\ [][Next]_vars
SpecGroups == InitGroups /\ [][Next]_vars
SpecFlatten == InitFlatten /\ [][NextFlatten]_vars

(***************************************************************************)
(* Properties of packages() and project_name(), checked under Spec.        *)
(***************************************************************************)
Returned(op) == call = op

\* C1, as stated: for every variant and every lock, packages() yields a
\* non-empty sequence that holds no package name twice.
C1_NonEmptyNoDuplicates ==
    Returned("packages") => ret # <<>> /\ NoDuplicates(ret)

\* C1, amended: for every variant and every lock, packages() yields a
\* sequence that holds no package name twice; the sequence is non-empty
\* exactly when the target is a Project, or the lock's member list is
\* non-empty, or the target is a Workspace and the lock has a root.
C1_NoDuplicatesNonEmptyWhen ==
    Returned("packages") =>
        /\ NoDuplicates(ret)
        /\ ret # <<>> <=>
              \/ target.kind = "Project"
              \/ target.lock.members # <<>>
              \/ target.kind = "Workspace" /\ target.lock.root # None

\* A non-project workspace whose lock lists no member, although it has a
\* root: packages() has yielded nothing.
C1_Witness ==
    /\ Returned("packages")
    /\ target.kind = "NonProjectWorkspace"
    /\ target.lock = Lock(<<>>, Some("p2"))
    /\ ret = <<>>

\* C2, as stated: for a Workspace, an empty member list makes packages()
\* return exactly one element, the lock's root; a non-empty member list
\* makes it return exactly the member list.
C2_RootSinglyOrMembers ==
    Returned("packages") /\ target.kind = "Workspace" =>
        IF target.lock.members = <<>>
        THEN Len(ret) = 1 /\ ret = target.lock.root
        ELSE ret = target.lock.members

\* C2, amended: for a Workspace, an empty member list makes packages()
\* return the lock's root alone when the lock has one and nothing when it
\* has none; a non-empty member list makes it return exactly the member
\* list, whatever the root.
C2_RootIfAnyOrMembers ==
    Returned("packages") /\ target.kind = "Workspace" =>
        IF target.lock.members = <<>>
        THEN \/ target.lock.root = None /\ ret = <<>>
             \/ target.lock.root # None /\ ret = <<target.lock.root[1]>>
        ELSE ret = target.lock.members

\* A Workspace whose lock lists no member and has the root p3: packages()
\* has yielded p3 alone.
C2_Witness ==
    /\ Returned("packages")
    /\ target.kind = "Workspace"
    /\ target.lock = Lock(<<>>, Some("p3"))
    /\ ret = <<"p3">>

\* C3: for a Project, packages() yields exactly the name given at
\* construction, whatever the lock holds, and project_name() returns that
\* name; project_name() returns None for the other two variants.
C3_ProjectName ==
    /\ Returned("packages") /\ target.kind = "Project" => ret = <<target.name>>
    /\ Returned("project_name") =>
          ret = IF target.kind = "Project" THEN Some(target.name) ELSE None

\* A Project named p3 over a lock that lists p1 and p2 and has the root p1:
\* packages() has yielded p3 alone.
C3_Witness ==
    /\ Returned("packages")
    /\ target.kind = "Project"
    /\ target.name = "p3"
    /\ target.lock = Lock(<<"p1", "p2">>, Some("p1"))
    /\ ret = <<"p3">>

\* C7: for a NonProjectWorkspace, packages() yields exactly the lock's
\* member list, in the lock's order, whatever the workspace's member table
\* and the lock's root are; an empty member list is yielded as it is.
C7_LockMembers ==
    Returned("packages") /\ target.kind = "NonProjectWorkspace" =>
        ret = target.lock.members

\* A non-project workspace whose member table holds p1 and p3 and whose
\* lock lists p2 then p1: packages() has yielded p2 then p1.
C7_Witness ==
    /\ Returned("packages")
    /\ target.kind = "NonProjectWorkspace"
    /\ target.workspace.packages = {"p1", "p3"}
    /\ target.lock = Lock(<<"p2", "p1">>, Some("p3"))
    /\ ret = <<"p2", "p1">>

(***************************************************************************)
(* Properties of groups(), checked under SpecGroups.                       *)
(***************************************************************************)
\* The two sources of the target's root manifest.
Declared == dependency_groups(target.workspace)
Legacy == dev_dependencies(target.workspace)
\* What flattening the declared groups gives.
Flat == from_dependency_groups(Declared)

\* C4: for a Project and for a Workspace, groups() succeeds with an empty
\* table whatever the root manifest declares: dependency-groups, the legacy
\* dev-dependencies, or a group graph the flattener rejects.
C4_EmptyForProjectAndWorkspace ==
    Returned("groups") /\ target.kind \in {"Project", "Workspace"} =>
        ret = Ok(EmptyTable)

\* A Workspace whose manifest declares a group that includes itself and a
\* legacy list holding R1: groups() has returned the empty table.
C4_Witness ==
    /\ Returned("groups")
    /\ target.kind = "Workspace"
    /\ Declared = [a |-> <<IncludeGroup("a")>>]
    /\ Legacy = Some(<<"R1">>)
    /\ ret.ok
    /\ DOMAIN ret.value = {}

\* C5: for a NonProjectWorkspace, when the flattened groups hold the dev
\* group and the legacy list is declared, the dev list returned is the
\* flattened list followed by the legacy list, nothing replaced and nothing
\* deduplicated.
C5_FlattenedThenLegacy ==
    /\ Returned("groups")
    /\ target.kind = "NonProjectWorkspace"
    /\ Flat.ok
    /\ DEV_DEPENDENCIES \in DOMAIN Flat.value
    /\ Legacy # None
    => /\ ret.ok
       /\ ret.value[DEV_DEPENDENCIES] = Flat.value[DEV_DEPENDENCIES] \o Legacy[1]

\* The manifest declares {"dev": [R1]} and the legacy list [R1]: groups()
\* has returned {"dev": [R1, R1]}.
C5_Witness ==
    /\ Returned("groups")
    /\ target.kind = "NonProjectWorkspace"
    /\ Declared = [dev |-> <<Requirement("R1")>>]
    /\ Legacy = Some(<<"R1">>)
    /\ ret = Ok([dev |-> <<"R1", "R1">>])

\* C6: for a NonProjectWorkspace, groups() returns the flattener's error,
\* unchanged and with no table, whenever flattening fails, also when the
\* legacy list is declared, and succeeds whenever flattening succeeds;
\* workspace(), packages() and project_name() return a value for every
\* target and manifest.
C6_ErrorsPropagateUnchanged ==
    /\ Returned("groups") /\ target.kind = "NonProjectWorkspace" =>
          /\ ~Flat.ok => ret = Err(Flat.error) /\ DOMAIN ret = {"ok", "error"}
          /\ Flat.ok => ret.ok
    /\ Returned("workspace") => ret = target.workspace
    /\ Returned("packages") => \A i \in 1..Len(ret) : ret[i] \in PackageNames
    /\ Returned("project_name") =>
          ret = None \/ (Len(ret) = 1 /\ ret[1] \in PackageNames)

\* The manifest declares a group that includes an undeclared group and the
\* legacy list [R2]: groups() has returned the unknown-group error.
C6_Witness ==
    /\ Returned("groups")
    /\ target.kind = "NonProjectWorkspace"
    /\ Declared = [b |-> <<IncludeGroup("a")>>]
    /\ Legacy = Some(<<"R2">>)
    /\ ret = Err(UnknownGroupReference("a", "b"))

\* C10: for a NonProjectWorkspace whose groups flatten, the keys of the
\* returned table are the flattened groups' keys, plus the dev key exactly
\* when the legacy list is declared (also when it is declared empty), and
\* every group but dev has its flattened list.
C10_KeysAndOtherGroups ==
    /\ Returned("groups")
    /\ target.kind = "NonProjectWorkspace"
    /\ Flat.ok
    => /\ ret.ok
       /\ DOMAIN ret.value =
             DOMAIN Flat.value
               \cup (IF Legacy # None THEN {DEV_DEPENDENCIES} ELSE {})
       /\ \A g \in DOMAIN Flat.value \ {DEV_DEPENDENCIES} :
             ret.value[g] = Flat.value[g]

\* The manifest declares {"a": [R1], "b": [include("a")]} and an empty
\* legacy list: groups() has returned the two groups and an empty dev group.
C10_Witness ==
    /\ Returned("groups")
    /\ target.kind = "NonProjectWorkspace"
    /\ Declared = [a |-> <<Requirement("R1")>>, b |-> <<IncludeGroup("a")>>]
    /\ Legacy = Some(<<>>)
    /\ ret = Ok([a |-> <<"R1">>, b |-> <<"R1">>, dev |-> <<>>])

(***************************************************************************)
(* Properties of the flattener, checked under SpecFlatten.                 *)
(***************************************************************************)
\* The groups that group g of the table includes directly.
IncludesOf(table, g) ==
    {table[g][i].value :
        i \in {j \in 1..Len(table[g]) : table[g][j].kind = "include-group"}}
\* Some include of the table names a group it does not declare.
HasUnknown(table) ==
    \E g \in DOMAIN table : ~(IncludesOf(table, g) \subseteq DOMAIN table)
\* The declared groups reached from the groups of S by at most n includes.
RECURSIVE ReachedIn(_, _, _)
ReachedIn(table, S, n) ==
    IF n = 0 THEN S
    ELSE LET R == ReachedIn(table, S, n - 1)
         IN  R \cup (UNION {IncludesOf(table, g) : g \in R} \cap DOMAIN table)
\* Group g reaches itself by one include or more.
OnCycle(table, g) ==
    g \in ReachedIn(table, IncludesOf(table, g) \cap DOMAIN table,
                    Cardinality(DOMAIN table))
HasCycle(table) == \E g \in DOMAIN table : OnCycle(table, g)
\* The names of c are distinct declared groups, each including the next
\* and the last including the first.
IsCycle(table, c) ==
    /\ c # <<>>
    /\ NoDuplicates(c)
    /\ Range(c) \subseteq DOMAIN table
    /\ \A i \in 1..Len(c) : c[(i % Len(c)) + 1] \in IncludesOf(table, c[i])

\* The textual expansion of group g of a table that has no cycle and no
\* unknown include: a literal gives itself, an include the expansion of the
\* group it names.
RECURSIVE Expand(_, _)
RECURSIVE ExpandFrom(_, _, _)
Expand(table, g) == ExpandFrom(table, g, 1)
ExpandFrom(table, g, i) ==
    IF i > Len(table[g]) THEN <<>>
    ELSE (IF table[g][i].kind = "requirement"
          THEN <<table[g][i].value>>
          ELSE Expand(table, table[g][i].value))
           \o ExpandFrom(table, g, i + 1)

IsCyclicError(r) == ~r.ok /\ r.error.kind = "CyclicGroupReference"

\* C8, as stated: flattening a table whose includes form a cycle fails with
\* CyclicGroupReference naming the groups of a cycle, and returns no table;
\* a table without a cycle never gives that error.
C8_CycleAlwaysCyclicError ==
    Returned("from_dependency_groups") =>
        /\ HasCycle(Declared) =>
              /\ IsCyclicError(ret)
              /\ IsCycle(Declared, ret.error.cycle)
              /\ "value" \notin DOMAIN ret
        /\ ~HasCycle(Declared) => ~IsCyclicError(ret)

\* C8, amended: flattening a table whose includes form a cycle fails and
\* returns no table; the error is CyclicGroupReference whenever every
\* include names a declared group (otherwise it is the error the
\* depth-first walk meets first, which may be the unknown group); a
\* CyclicGroupReference names the groups of a cycle, and a table without a
\* cycle never gives it.
C8_CycleFailsCyclicUnlessUnknown ==
    Returned("from_dependency_groups") =>
        /\ HasCycle(Declared) => ~ret.ok /\ "value" \notin DOMAIN ret
        /\ HasCycle(Declared) /\ ~HasUnknown(Declared) => IsCyclicError(ret)
        /\ IsCyclicError(ret) => IsCycle(Declared, ret.error.cycle)
        /\ ~HasCycle(Declared) => ~IsCyclicError(ret)

\* The table {"a": [include("b")], "b": [include("dev")],
\* "dev": [include("b")]}: flattening has failed naming b and dev, the
\* groups on the cycle, and not a, which only leads to it.
C8_Witness ==
    /\ Returned("from_dependency_groups")
    /\ Declared = [a |-> <<IncludeGroup("b")>>, b |-> <<IncludeGroup("dev")>>,
                   dev |-> <<IncludeGroup("b")>>]
    /\ ret = Err(CyclicGroupReference(<<"b", "dev">>))

\* C9: for a table with no cycle and no unknown include, flattening
\* succeeds, and the list of every group is its textual expansion, nothing
\* deduplicated: {"a": [R1], "b": [include("a")],
\* "dev": [include("a"), include("b")]} gives dev the list [R1, R1].
C9_TextualExpansion ==
    /\ Returned("from_dependency_groups")
    /\ ~HasCycle(Declared)
    /\ ~HasUnknown(Declared)
    => /\ ret.ok
       /\ DOMAIN ret.value = DOMAIN Declared
       /\ \A g \in DOMAIN Declared : ret.value[g] = Expand(Declared, g)

\* The diamond {"a": [R1], "b": [include("a")],
\* "dev": [include("a"), include("b")]}: flattening has given dev [R1, R1].
C9_Witness ==
    /\ Returned("from_dependency_groups")
    /\ Declared = [a |-> <<Requirement("R1")>>, b |-> <<IncludeGroup("a")>>,
                   dev |-> <<IncludeGroup("a"), IncludeGroup("b")>>]
    /\ ret = Ok([a |-> <<"R1">>, b |-> <<"R1">>, dev |-> <<"R1", "R1">>])

====
